---- MODULE Spec2Model ----
(***************************************************************************)
(* A model of the two command-line utilities of the Research-Agent         *)
(* repository: the requirements interview (brainstorming_agent.py) and the *)
(* abstract extraction pipeline (abstract_extrator.py).                    *)
(*                                                                         *)
(* Text is modelled as a sequence of one-character strings, so that the    *)
(* regular expression of strip_think_tags and str.strip() are computed     *)
(* character by character.  Longer fixed texts (the prompts, the error     *)
(* prefix, exception messages) are single tokens of such a sequence.       *)
(***************************************************************************)
EXTENDS Integers, Sequences, FiniteSets, TLC

VARIABLES
    \* ---- the normalizer applied to one text, twice
    n_pc, n_in, n_once, n_twice,
    \* ---- the text extraction of the two clients applied to one response
    c_pc, c_mode, c_response, c_out,
    \* ---- the interview session (brainstorming_agent.py __main__)
    pc, locals, conversation, calls, stdin_reads, hint_printed, summary_file,
    \* ---- the extraction run (extract_abstracts_from_pdfs)
    e_pc, idx, results, api_calls_made, sleep_log, provider_calls,
    returned_calls, unusual_seen, last_doc

nvars == <<n_pc, n_in, n_once, n_twice>>
cvars == <<c_pc, c_mode, c_response, c_out>>
ivars == <<pc, locals, conversation, calls, stdin_reads, hint_printed, summary_file>>
evars == <<e_pc, idx, results, api_calls_made, sleep_log, provider_calls,
           returned_calls, unusual_seen, last_doc>>
vars == <<nvars, cvars, ivars, evars>>

----------------------------------------------------------------------------
(* Bounds of the model *)

\* the longest input of the normalizer, in fragments
MaxFrags == 5
\* the number of PDF files in the folder
NumDocs == 20
\* how many documents of a run may differ from the plain document
MaxUnusual == 1

----------------------------------------------------------------------------
(* Text utilities *)

Min(S) == CHOOSE x \in S : \A y \in S : x <= y

RECURSIVE Flatten(_)
Flatten(ss) == IF ss = <<>> THEN <<>> ELSE Head(ss) \o Flatten(Tail(ss))

\* "sep".join(parts)
RECURSIVE Join(_, _)
Join(sep, parts) ==
    IF parts = <<>> THEN <<>>
    ELSE IF Len(parts) = 1 THEN Head(parts)
    ELSE Head(parts) \o sep \o Join(sep, Tail(parts))

Whitespace == {" ", "\n", "\t"}

\* str.strip(): leading and trailing whitespace removed
Strip(s) ==
    LET keep == {i \in 1..Len(s) : s[i] \notin Whitespace}
    IN  IF keep = {} THEN <<>>
        ELSE SubSeq(s, Min(keep), CHOOSE i \in keep : \A j \in keep : j <= i)

\* re.IGNORECASE on the letters of the two tags
Lower(c) ==
    CASE c = "T" -> "t" [] c = "H" -> "h" [] c = "I" -> "i"
      [] c = "N" -> "n" [] c = "K" -> "k" [] OTHER -> c

OpenTag == <<"<", "t", "h", "i", "n", "k", ">">>
CloseTag == <<"<", "/", "t", "h", "i", "n", "k", ">">>

\* pat matches s at position i, ignoring case
MatchAt(s, i, pat) ==
    /\ i >= 1
    /\ i + Len(pat) - 1 <= Len(s)
    /\ \A k \in 1..Len(pat) : Lower(s[i + k - 1]) = pat[k]

\* the positions at which <think>[\s\S]*?</think> matches: an opening tag
\* with a closing tag somewhere after it
MatchStarts(s) ==
    {i \in 1..Len(s) :
        /\ MatchAt(s, i, OpenTag)
        /\ \E j \in (i + Len(OpenTag))..Len(s) : MatchAt(s, j, CloseTag)}

\* re.sub(r"<think>[\s\S]*?</think>", "", s, flags=re.IGNORECASE): the
\* leftmost match, extended lazily to the first closing tag, is removed and
\* the scan goes on after it
RECURSIVE ReSub(_)
ReSub(s) ==
    IF MatchStarts(s) = {} THEN s
    ELSE LET i == Min(MatchStarts(s))
             j == Min({k \in (i + Len(OpenTag))..Len(s) : MatchAt(s, k, CloseTag)})
         IN  SubSeq(s, 1, i - 1) \o ReSub(SubSeq(s, j + Len(CloseTag), Len(s)))

strip_think_tags(text) == IF text = <<>> THEN text ELSE ReSub(text)

\* the normalization of every call site: strip_think_tags(x).strip()
Normalize(text) == Strip(strip_think_tags(text))

----------------------------------------------------------------------------
(* The normalizer applied twice to one text *)

Fragments ==
    { OpenTag, CloseTag,
      <<"<", "T", "h", "i", "n", "k", ">">>,
      <<"<", "t", "h", "i">>, <<"n", "k", ">">>,
      <<"x">>, <<" ">>, <<"\n">> }

\* the texts made of at most maxlen fragments
NormInputs(maxlen) ==
    {Flatten(fs) : fs \in UNION {[1..n -> Fragments] : n \in 0..maxlen}}

NoText == <<"UNSET">>

InitNormalize ==
    /\ n_pc = "start"
    /\ n_in \in NormInputs(MaxFrags)
    /\ n_once = NoText
    /\ n_twice = NoText

NormalizeFirst ==
    /\ n_pc = "start"
    /\ n_once' = Normalize(n_in)
    /\ n_pc' = "once"
    /\ UNCHANGED <<n_in, n_twice, cvars, ivars, evars>>

NormalizeAgain ==
    /\ n_pc = "once"
    /\ n_twice' = Normalize(n_once)
    /\ n_pc' = "twice"
    /\ UNCHANGED <<n_in, n_once, cvars, ivars, evars>>

----------------------------------------------------------------------------
(* Provider responses and the text extraction of the two clients *)

\* An attribute of a provider object is one of: absent (the access raises
\* AttributeError), None, a string, a list, an object, or an accessor that
\* raises another exception.
Missing == [tag |-> "missing", val |-> <<>>]
None == [tag |-> "none", val |-> <<>>]
Str(s) == [tag |-> "str", val |-> s]
List(xs) == [tag |-> "list", val |-> xs]
Obj(x) == [tag |-> "obj", val |-> <<x>>]
Raises(msg) == [tag |-> "raises", val |-> <<msg>>]

\* the outcome of a call: a value returned or an exception raised
Returned(v) == [tag |-> "returned", val |-> <<v>>]
Raised(msg) == [tag |-> "raised", val |-> <<msg>>]

\* Python truthiness of an attribute value
Truthy(v) ==
    CASE v.tag = "none" -> FALSE
      [] v.tag = "str" -> v.val # <<>>
      [] v.tag = "list" -> v.val # <<>>
      [] OTHER -> TRUE

\* getattr(o, name, default) on an attribute that may be absent
GetAttr(v, default) == IF v.tag = "missing" THEN default ELSE v

\* "".join(getattr(part, "text", "") for part in content): a part whose text
\* is None makes join raise TypeError
JoinParts(parts) ==
    IF \E k \in 1..Len(parts) : GetAttr(parts[k], Str(<<>>)).tag # "str"
    THEN Raised("TypeError")
    ELSE Returned(Flatten([k \in 1..Len(parts) |->
                              GetAttr(parts[k], Str(<<>>)).val]))

\* the try block of complete_text: the text it returns, or the fall through
\* to the fallbacks (nothing returned, or an exception swallowed)
FallThrough == [tag |-> "fallthrough", val |-> <<>>]

TryChoices(response) ==
    IF response.choices.tag # "list" \/ response.choices.val = <<>>
    THEN FallThrough                      \* AttributeError, TypeError, IndexError
    ELSE LET choice == response.choices.val[1]
             msg == GetAttr(choice.message, None)
             content == IF msg.tag = "obj" THEN GetAttr(msg.val[1], None) ELSE None
         IN  IF ~(Truthy(msg) /\ Truthy(content)) THEN FallThrough
             ELSE IF content.tag = "list"
                  THEN IF JoinParts(content.val).tag = "returned"
                       THEN JoinParts(content.val)
                       ELSE FallThrough
                  ELSE Returned(content.val)       \* str(content)

\* complete_text, from the response object client.complete returned
complete_text(response) ==
    IF TryChoices(response).tag = "returned"
    THEN TryChoices(response).val[1]
    ELSE IF response.output_text.tag # "missing" /\ Truthy(response.output_text)
         THEN response.output_text.val
         ELSE <<>>

\* getattr(response, "text", "") or "" of the extraction pipeline: the text,
\* or the exception a raising accessor lets through
response_text(response) ==
    IF response.text.tag = "raises" THEN Raised(response.text.val[1])
    ELSE IF Truthy(GetAttr(response.text, Str(<<>>)))
         THEN Returned(GetAttr(response.text, Str(<<>>)).val)
         ELSE Returned(<<>>)

\* ---- the response shapes of the model
PartShapes == {Missing, None, Str(<<>>), Str(<<"a">>)}
PartLists == UNION {[1..n -> PartShapes] : n \in 0..2}
ContentShapes ==
    {Missing, None, Str(<<>>), Str(<<"a">>)} \cup {List(ps) : ps \in PartLists}
MessageShapes == {Missing, None} \cup {Obj(c) : c \in ContentShapes}
ChoicesShapes ==
    {Missing, None, List(<<>>)}
        \cup {List(<<[message |-> m]>>) : m \in MessageShapes}
OutputTextShapes == {Missing, None, Str(<<>>), Str(<<"b">>)}
ChatResponses ==
    {[choices |-> c, output_text |-> o] :
        c \in ChoicesShapes, o \in OutputTextShapes}

TextShapes == {Missing, None, Str(<<>>), Str(<<"a">>), Raises("ValueError")}
GeminiResponses == {[text |-> t] : t \in TextShapes}

\* the response carries none of the text fields the client reads
NoTextFields(response) ==
    /\ TryChoices(response) = FallThrough
    /\ response.output_text.tag \in {"missing", "none"}

Pending == [tag |-> "pending", val |-> <<>>]

InitClient ==
    /\ c_pc = "start"
    /\ c_mode \in {"chat", "summarization"}
    /\ c_response \in IF c_mode = "chat" THEN ChatResponses ELSE GeminiResponses
    /\ c_out = Pending

\* chat mode: complete_text reads the response
ExtractChat ==
    /\ c_pc = "start"
    /\ c_mode = "chat"
    /\ c_out' = Returned(complete_text(c_response))
    /\ c_pc' = "done"
    /\ UNCHANGED <<c_mode, c_response, nvars, ivars, evars>>

\* summarization mode: the pipeline reads response.text
ExtractSummarization ==
    /\ c_pc = "start"
    /\ c_mode = "summarization"
    /\ c_out' = response_text(c_response)
    /\ c_pc' = "done"
    /\ UNCHANGED <<c_mode, c_response, nvars, ivars, evars>>

----------------------------------------------------------------------------
(* The interview session: brainstorming_agent.py, __main__ *)

SystemMessage(c) == [role |-> "system", content |-> c]
UserMessage(c) == [role |-> "user", content |-> c]
AssistantMessage(c) == [role |-> "assistant", content |-> c]

\* the fixed texts of the script, one token each
ResearchAssistantText == <<"You are a helpful research assistant.">>
BrainstormAssistantText == <<"You are a helpful brainstorming assistant.">>
BroadPrompt == <<"broad questions prompt">>
prompt_2 == <<"detailed questions prompt">>
prompt_3 == <<"recommendations prompt">>
prompt_4 == <<"summary prompt">>

\* the message list requirement_agent_initial_questions sends
InitialMessages ==
    <<SystemMessage(ResearchAssistantText), UserMessage(BroadPrompt)>>

\* what the provider may answer in a session: a text with a reasoning block
\* and blanks around the answer, or a list of parts
InterviewResponses ==
    { [choices |-> List(<<[message |->
            Obj(Str(OpenTag \o <<"r">> \o CloseTag \o <<" ", "a", "\n">>))]>>),
       output_text |-> Missing],
      [choices |-> List(<<[message |->
            Obj(List(<<Str(<<"b">>), Missing>>))]>>),
       output_text |-> Missing] }

LLMOutcomes ==
    {Raised("HttpResponseError")} \cup {Returned(r) : r \in InterviewResponses}

\* what input("Answer: ") may give
InputOutcomes == {Raised("EOFError"), Returned(<<"u">>), Returned(<<>>)}

NoFile == <<"NO FILE">>

LocalNames ==
    {"questions_raw", "questions", "user_answer", "followup_1",
     "followup_2_raw", "followup_2", "user_answer2",
     "followup_3_raw", "followup_3", "user_answer_3", "summary", "e"}

InitInterview ==
    /\ pc = "call1"
    /\ locals = [n \in LocalNames |-> NoText]
    /\ conversation = <<>>
    /\ calls = <<>>
    /\ stdin_reads = <<>>
    /\ hint_printed = FALSE
    /\ summary_file = NoFile

\* a handler that swallows the failure and goes on to save the summary
ExceptHandler_Continue(msg) ==
    /\ pc' = "write"
    /\ locals' = [locals EXCEPT !.e = <<msg>>]
    /\ hint_printed' = TRUE

\* except Exception as e: the two prints; nothing after it runs
ExceptHandler(msg) ==
    /\ pc' = "aborted"
    /\ locals' = [locals EXCEPT !.e = <<msg>>]
    /\ hint_printed' = TRUE

\* insert(0, turn) in place of append
AppendTurn_Front(conv, turn) == <<turn>> \o conv

\* conversation.append(turn)
AppendTurn(conv, turn) == Append(conv, turn)

\* var = complete_text(messages): one client.complete call, which may raise
LLMCall(at, messages, var, next) ==
    /\ pc = at
    /\ \E reply \in LLMOutcomes :
        IF reply.tag = "raised"
        THEN /\ calls' = Append(calls, [at |-> at, messages |-> messages,
                                        outcome |-> reply])
             /\ ExceptHandler(reply.val[1])
        ELSE /\ calls' = Append(calls,
                    [at |-> at, messages |-> messages,
                     outcome |-> Returned(complete_text(reply.val[1]))])
             /\ locals' = [locals EXCEPT ![var] = complete_text(reply.val[1])]
             /\ pc' = next
             /\ UNCHANGED hint_printed
    /\ UNCHANGED <<conversation, stdin_reads, summary_file, nvars, cvars, evars>>

\* out = strip_think_tags(raw).strip(); print(out);
\* conversation.append(AssistantMessage(content=out))
NormalizeAndAppend(at, raw, out, next) ==
    /\ pc = at
    /\ locals' = [locals EXCEPT ![out] = Normalize(locals[raw])]
    /\ conversation' =
           AppendTurn(conversation, AssistantMessage(Normalize(locals[raw])))
    /\ pc' = next
    /\ UNCHANGED <<calls, stdin_reads, hint_printed, summary_file, nvars, cvars, evars>>

\* var = input("Answer: "); conversation.append(UserMessage(content=var))
ReadAnswer(at, var, next) ==
    /\ pc = at
    /\ \E answer \in InputOutcomes :
        /\ stdin_reads' = Append(stdin_reads, answer)
        /\ IF answer.tag = "raised"
           THEN /\ ExceptHandler(answer.val[1])
                /\ UNCHANGED conversation
           ELSE /\ locals' = [locals EXCEPT ![var] = answer.val[1]]
                /\ conversation' =
                       AppendTurn(conversation, UserMessage(answer.val[1]))
                /\ pc' = next
                /\ UNCHANGED hint_printed
    /\ UNCHANGED <<calls, summary_file, nvars, cvars, evars>>

\* the instruction sent alone, the conversation so far dropped
AppendInstruction_Alone(at, prompt, next) ==
    /\ pc = at
    /\ conversation' = <<SystemMessage(prompt)>>
    /\ pc' = next
    /\ UNCHANGED <<locals, calls, stdin_reads, hint_printed, summary_file,
                   nvars, cvars, evars>>

\* conversation.append(SystemMessage(content=prompt))
AppendInstruction(at, prompt, next) ==
    /\ pc = at
    /\ conversation' = AppendTurn(conversation, SystemMessage(prompt))
    /\ pc' = next
    /\ UNCHANGED <<locals, calls, stdin_reads, hint_printed, summary_file,
                   nvars, cvars, evars>>

\* ---- first cycle
Call1 == LLMCall("call1", InitialMessages, "questions_raw", "norm1")

Norm1 ==
    /\ pc = "norm1"
    /\ locals' = [locals EXCEPT !.questions = Normalize(locals.questions_raw)]
    /\ conversation' =
           <<SystemMessage(BrainstormAssistantText),
             AssistantMessage(Normalize(locals.questions_raw))>>
    /\ pc' = "input1"
    /\ UNCHANGED <<calls, stdin_reads, hint_printed, summary_file, nvars, cvars, evars>>

Input1 == ReadAnswer("input1", "user_answer", "call1b")

Call1b == LLMCall("call1b", conversation, "followup_1", "instr2")

\* ---- second cycle
Instr2 == AppendInstruction("instr2", prompt_2, "call2")
Call2 == LLMCall("call2", conversation, "followup_2_raw", "norm2")
Norm2 == NormalizeAndAppend("norm2", "followup_2_raw", "followup_2", "input2")
Input2 == ReadAnswer("input2", "user_answer2", "instr3")

\* ---- third cycle
Instr3 == AppendInstruction("instr3", prompt_3, "call3")
Call3 == LLMCall("call3", conversation, "followup_3_raw", "norm3")
Norm3 == NormalizeAndAppend("norm3", "followup_3_raw", "followup_3", "input3")
Input3 == ReadAnswer("input3", "user_answer_3", "instr4")

\* ---- fourth cycle
Instr4 == AppendInstruction("instr4", prompt_4, "call4")
Call4 == LLMCall("call4", conversation, "summary", "norm4")
Norm4 == NormalizeAndAppend("norm4", "summary", "summary", "write")

\* the unnormalized text of the last call written in place of summary
SummaryToWrite_Raw == calls[Len(calls)].outcome.val[1]

\* the text f.write receives
SummaryToWrite == locals.summary

\* with open(summary_path, "w") as f: f.write(summary); open may raise
WriteSummary ==
    /\ pc = "write"
    /\ \/ /\ summary_file' = SummaryToWrite
          /\ pc' = "done"
          /\ UNCHANGED <<locals, hint_printed>>
       \/ /\ ExceptHandler("OSError")
          /\ UNCHANGED summary_file
    /\ UNCHANGED <<conversation, calls, stdin_reads, nvars, cvars, evars>>

NextInterview ==
    \/ Call1 \/ Norm1 \/ Input1 \/ Call1b
    \/ Instr2 \/ Call2 \/ Norm2 \/ Input2
    \/ Instr3 \/ Call3 \/ Norm3 \/ Input3
    \/ Instr4 \/ Call4 \/ Norm4 \/ WriteSummary

\* the phase a program position belongs to
Phase(p) ==
    CASE p \in {"call1", "norm1", "input1", "call1b"} -> "BroadQuestions"
      [] p \in {"instr2", "call2", "norm2", "input2"} -> "DetailedQuestions"
      [] p \in {"instr3", "call3", "norm3", "input3"} -> "Recommendations"
      [] p \in {"instr4", "call4", "norm4", "write"} -> "Summary"
      [] p = "done" -> "Done"
      [] OTHER -> "Aborted"

----------------------------------------------------------------------------
(* The extraction run: abstract_extrator.py, extract_abstracts_from_pdfs *)

\* max_chars, the default of read_first_two_pages_text
max_chars == 40000
\* the page limit of read_first_two_pages_text
PageLimit == 2
\* api_calls_made % 9 == 0
SleepEvery == 9
\* time.sleep(80)
SleepSeconds == 80

ErrorPrefix == "Error extracting abstract: "

\* page.extract_text() or "", an exception giving ""
page_text(page) ==
    IF page.tag = "raises" THEN <<>>
    ELSE IF Truthy(page) THEN page.val ELSE <<>>

\* read_first_two_pages_text: PdfReader may raise; the first two pages are
\* joined by a blank line, stripped and cut to max_chars
read_first_two_pages_text(doc) ==
    IF doc.reader = "raises" THEN Raised("PdfReadError")
    ELSE LET pages_to_read ==
                 IF PageLimit < Len(doc.pages) THEN PageLimit ELSE Len(doc.pages)
             collected_text_parts ==
                 [k \in 1..pages_to_read |-> page_text(doc.pages[k])]
             combined_text == Strip(Join(<<"\n", "\n">>, collected_text_parts))
         IN  IF Len(combined_text) > max_chars
             THEN Returned(SubSeq(combined_text, 1, max_chars))
             ELSE Returned(combined_text)

\* os.path.splitext(os.path.basename(pdf_path))[0]
FilenameStem(path) == <<"paper", ToString(path)>>

\* a title that is a string and not blank
UsableTitle(t) == t.tag = "str" /\ Strip(t.val) # <<>>

\* get_pdf_title: the metadata title attribute, else the /Title key, else
\* the filename stem; every exception ends in the stem
get_pdf_title(doc) ==
    IF doc.reader = "raises" \/ doc.meta.tag # "obj" THEN FilenameStem(doc.path)
    ELSE LET metadata == doc.meta.val[1]
             title_attr == GetAttr(metadata.title, None)
         IN  IF UsableTitle(title_attr) THEN Strip(title_attr.val)
             ELSE IF UsableTitle(metadata.key) THEN Strip(metadata.key.val)
             ELSE FilenameStem(doc.path)

\* build_abstract_prompt: the text between the two delimiter lines
build_abstract_prompt(first_two_pages_text) ==
    <<"instructions", "-----------------------------\n">>
        \o first_two_pages_text \o <<"\n", "-----------------------------\n">>

\* the test for empty text left out
IsEmptyText_Never(text) == FALSE

\* not first_two_pages
IsEmptyText(text) == text = <<>>

\* f"Error extracting abstract: {error}"
ErrorAbstract(msg) == <<ErrorPrefix, msg>>

\* ---- the documents and provider outcomes of the model
PageShapes == {Str(<<"t">>), Str(<<" ", "\n">>), None, Raises("PageError")}
PageLists == UNION {[1..n -> PageShapes] : n \in 0..3}
MetaShapes ==
    {None} \cup
    {Obj([title |-> t, key |-> k]) :
        t \in {Missing, Str(<<" ", "T">>), Str(<<" ">>)},
        k \in {None, Str(<<"K", " ">>), Raises("KeyError")}}
ProviderOutcomes ==
    {Raised("ResourceExhausted")} \cup {Returned(r) : r \in GeminiResponses}

PlainPages == <<Str(<<"t">>), Str(<<"t">>)>>
PlainReply == Returned([text |-> Str(<<"a">>)])
PlainDoc(path) ==
    [path |-> path, reader |-> "ok", meta |-> None, pages |-> PlainPages]

\* the documents that differ from the plain one in one respect
UnusualDocs(path) ==
    {[PlainDoc(path) EXCEPT !.reader = "raises"]}
        \cup {[PlainDoc(path) EXCEPT !.meta = m] : m \in MetaShapes \ {None}}
        \cup {[PlainDoc(path) EXCEPT !.pages = ps] : ps \in PageLists \ {PlainPages}}

NoDoc == [path |-> 0, reader |-> "ok", meta |-> None, pages |-> <<>>]

InitExtract ==
    /\ e_pc = "loop"
    /\ idx = 0
    /\ results = <<>>
    /\ api_calls_made = 0
    /\ sleep_log = <<>>
    /\ provider_calls = 0
    /\ returned_calls = 0
    /\ unusual_seen = 0
    /\ last_doc = [doc |-> NoDoc, prompt |-> NoText, reply |-> Pending]

\* the record put in front of the others
AppendRecord_Front(rs, title, abstract) ==
    <<[title |-> title, abstract |-> abstract]>> \o rs

\* results.append({"title": paper_title, "abstract": abstract_text})
AppendRecord(rs, title, abstract) ==
    Append(rs, [title |-> title, abstract |-> abstract])

\* the body of the loop for one document whose text was read: the provider
\* call, the read of response.text, the counter and the sleep
CallProvider(reply) ==
    /\ provider_calls' = provider_calls + 1
    /\ IF reply.tag = "raised"
       THEN UNCHANGED <<returned_calls, api_calls_made, sleep_log>>
       ELSE /\ returned_calls' = returned_calls + 1
            /\ IF response_text(reply.val[1]).tag = "raised"
               THEN UNCHANGED <<api_calls_made, sleep_log>>
               ELSE /\ api_calls_made' = api_calls_made + 1
                    /\ sleep_log' =
                         IF (api_calls_made + 1) % SleepEvery = 0
                         THEN Append(sleep_log,
                                     [after_call |-> api_calls_made + 1,
                                      seconds |-> SleepSeconds])
                         ELSE sleep_log

\* abstract_text of one document
AbstractText(doc, reply) ==
    LET first_two_pages == read_first_two_pages_text(doc)
    IN  IF first_two_pages.tag = "raised"
        THEN ErrorAbstract(first_two_pages.val[1])
        ELSE IF IsEmptyText(first_two_pages.val[1]) THEN <<>>
        ELSE IF reply.tag = "raised" THEN ErrorAbstract(reply.val[1])
        ELSE IF response_text(reply.val[1]).tag = "raised"
             THEN ErrorAbstract(response_text(reply.val[1]).val[1])
             ELSE response_text(reply.val[1]).val[1]

\* whether the loop body reaches model.generate_content for this document
ReachesProvider(doc) ==
    /\ read_first_two_pages_text(doc).tag = "returned"
    /\ ~IsEmptyText(read_first_two_pages_text(doc).val[1])

\* one iteration of the for loop
ProcessOne(doc, reply) ==
    /\ idx' = idx + 1
    /\ IF ReachesProvider(doc)
       THEN /\ CallProvider(reply)
            /\ last_doc' =
                   [doc |-> doc,
                    prompt |-> build_abstract_prompt(
                                   read_first_two_pages_text(doc).val[1]),
                    reply |-> reply]
       ELSE /\ UNCHANGED <<provider_calls, returned_calls, api_calls_made,
                           sleep_log>>
            /\ last_doc' = [doc |-> doc, prompt |-> NoText, reply |-> Pending]
    /\ results' = AppendRecord(results, get_pdf_title(doc), AbstractText(doc, reply))
    /\ UNCHANGED <<e_pc, nvars, cvars, ivars>>

ProcessPlain ==
    /\ e_pc = "loop"
    /\ idx < NumDocs
    /\ ProcessOne(PlainDoc(idx + 1), PlainReply)
    /\ UNCHANGED unusual_seen

ProcessUnusual ==
    /\ e_pc = "loop"
    /\ idx < NumDocs
    /\ unusual_seen < MaxUnusual
    /\ unusual_seen' = unusual_seen + 1
    /\ \/ \E doc \in UnusualDocs(idx + 1) : ProcessOne(doc, PlainReply)
       \/ \E reply \in ProviderOutcomes \ {PlainReply} :
              ProcessOne(PlainDoc(idx + 1), reply)

\* the loop is over: the DataFrame is built from results
Finish ==
    /\ e_pc = "loop"
    /\ idx = NumDocs
    /\ e_pc' = "done"
    /\ UNCHANGED <<idx, results, api_calls_made, sleep_log, provider_calls,
                   returned_calls, unusual_seen, last_doc, nvars, cvars, ivars>>

NextExtract == ProcessPlain \/ ProcessUnusual \/ Finish

----------------------------------------------------------------------------
(* Specifications: each utility, and each pure function, runs on its own *)

IdleNormalize ==
    n_pc = "idle" /\ n_in = NoText /\ n_once = NoText /\ n_twice = NoText
IdleClient ==
    c_pc = "idle" /\ c_mode = "none" /\ c_response = Pending /\ c_out = Pending
IdleInterview ==
    /\ pc = "idle" /\ locals = [n \in LocalNames |-> NoText]
    /\ conversation = <<>> /\ calls = <<>> /\ stdin_reads = <<>>
    /\ hint_printed = FALSE /\ summary_file = NoFile
IdleExtract ==
    /\ e_pc = "idle" /\ idx = 0 /\ results = <<>> /\ api_calls_made = 0
    /\ sleep_log = <<>> /\ provider_calls = 0 /\ returned_calls = 0
    /\ unusual_seen = 0 /\ last_doc = [doc |-> NoDoc, prompt |-> NoText, reply |-> Pending]

InitNormalizeRun == InitNormalize /\ IdleClient /\ IdleInterview /\ IdleExtract
InitClientRun == IdleNormalize /\ InitClient /\ IdleInterview /\ IdleExtract
InitInterviewRun == IdleNormalize /\ IdleClient /\ InitInterview /\ IdleExtract
InitExtractRun == IdleNormalize /\ IdleClient /\ IdleInterview /\ InitExtract

NextNormalize == NormalizeFirst \/ NormalizeAgain
NextClient == ExtractChat \/ ExtractSummarization

SpecNormalize == InitNormalizeRun /\ [][NextNormalize]_vars
SpecClient == InitClientRun /\ [][NextClient]_vars
SpecInterview == InitInterviewRun /\ [][NextInterview]_vars
SpecExtract == InitExtractRun /\ [][NextExtract]_vars

\* the session is sequential and every call blocks until it returns or
\* raises: a step that can be taken is taken
FairInterview == SpecInterview /\ WF_vars(NextInterview)

Init == InitNormalizeRun \/ InitClientRun \/ InitInterviewRun \/ InitExtractRun
Next == NextNormalize \/ NextClient \/ NextInterview \/ NextExtract
Spec == Init /\ [][Next]_vars

----------------------------------------------------------------------------
(* Claims about the interview session *)

Phases == <<"BroadQuestions", "DetailedQuestions", "Recommendations", "Summary">>
PhaseIndex(ph) ==
    CASE ph = "BroadQuestions" -> 1 [] ph = "DetailedQuestions" -> 2
      [] ph = "Recommendations" -> 3 [] ph = "Summary" -> 4
      [] ph = "Done" -> 5 [] OTHER -> 6

\* the calls made in a phase
CallsIn(ph) == {k \in 1..Len(calls) : Phase(calls[k].at) = ph}

\* the phase reached by the session, an aborted session staying in the
\* phase of its last call or read
ReachedIndex ==
    IF pc = "aborted"
    THEN IF calls = <<>> THEN 1 ELSE PhaseIndex(Phase(calls[Len(calls)].at))
    ELSE PhaseIndex(Phase(pc))

RolesOf(conv) == [k \in 1..Len(conv) |-> conv[k].role]
ContentsOf(conv, role) ==
    LET turns == SelectSeq(conv, LAMBDA t : t.role = role)
    IN  [k \in 1..Len(turns) |-> turns[k].content]

IsPrefix(a, b) == Len(a) <= Len(b) /\ SubSeq(b, 1, Len(a)) = a

\* the normalized responses of the calls of the phases before the one reached
ResponsesBeforeReached ==
    LET earlier == SelectSeq(calls, LAMBDA c :
                       /\ PhaseIndex(Phase(c.at)) < ReachedIndex
                       /\ c.outcome.tag = "returned")
    IN  [k \in 1..Len(earlier) |-> Normalize(earlier[k].outcome.val[1])]

\* C1: every phase makes exactly one complete_text call, so a session that
\* reaches Done has made exactly four, and every response received is
\* normalized and appended as an assistant turn before the next phase starts.
C1_OneCallPerPhase ==
    /\ \A n \in 1..4 : Cardinality(CallsIn(Phases[n])) <= 1
    /\ pc = "done" =>
          /\ Len(calls) = 4
          /\ \A n \in 1..4 : Cardinality(CallsIn(Phases[n])) = 1
    /\ IsPrefix(ResponsesBeforeReached, ContentsOf(conversation, "assistant"))

NextPhase(ph) ==
    CASE ph = "BroadQuestions" -> "DetailedQuestions"
      [] ph = "DetailedQuestions" -> "Recommendations"
      [] ph = "Recommendations" -> "Summary"
      [] ph = "Summary" -> "Done"
      [] OTHER -> ph

\* the raw text the call of the Summary phase returned
SummaryPhaseRaw ==
    LET k == CHOOSE k \in CallsIn("Summary") : TRUE
    IN  calls[k].outcome.val[1]

\* C2: whatever the responses and answers, a session in which no step fails
\* goes through BroadQuestions, DetailedQuestions, Recommendations, Summary
\* in that order and reaches Done, and the file then holds exactly the
\* normalized response of the Summary phase.
C2_FixedOrderAndSummaryOnly ==
    /\ Phase(pc) = "BroadQuestions"
    /\ [][Phase(pc') \in {Phase(pc), NextPhase(Phase(pc)), "Aborted"}
           /\ (Phase(pc) \in {"Done", "Aborted"} => pc' = pc)]_vars
    /\ [](pc = "done" =>
            /\ Cardinality(CallsIn("Summary")) = 1
            /\ summary_file = Normalize(SummaryPhaseRaw))
    /\ [](pc = "aborted" => locals.e # NoText)
    /\ <>(pc \in {"done", "aborted"})

\* a finished session whose file holds the Summary answer while the other
\* phases answered something else and the user typed something else
C2_Witness ==
    /\ pc = "done"
    /\ summary_file = <<"a">>
    /\ SummaryPhaseRaw # <<"a">>
    /\ locals.followup_3 = <<"b">>
    /\ locals.followup_2 = <<"b">>
    /\ locals.user_answer_3 = <<"u">>

\* the step is one in which a call, a read or the open raised
FailingStep ==
    \/ Len(calls') > Len(calls) /\ calls'[Len(calls')].outcome.tag = "raised"
    \/ Len(stdin_reads') > Len(stdin_reads)
          /\ stdin_reads'[Len(stdin_reads')].tag = "raised"
    \/ pc = "write" /\ pc' # "done"

AllPhasesCompleted ==
    /\ \A n \in 1..4 : \E k \in CallsIn(Phases[n]) : calls[k].outcome.tag = "returned"
    /\ Len(ContentsOf(conversation, "assistant")) = 4
    /\ Len(ContentsOf(conversation, "user")) = 3

\* C3: a failure in any step aborts the session: the hint is printed, no
\* later call or read happens, and the summary file is written only after
\* all four phases have completed, never by an aborted session.
C3_FailureAborts ==
    /\ [][FailingStep => pc' = "aborted" /\ hint_printed']_vars
    /\ [][pc = "aborted" =>
            calls' = calls /\ stdin_reads' = stdin_reads
            /\ summary_file' = summary_file /\ pc' = pc]_vars
    /\ [](pc = "aborted" => hint_printed /\ summary_file = NoFile)
    /\ [](summary_file # NoFile => pc = "done" /\ AllPhasesCompleted)
    /\ [](hint_printed => pc = "aborted")

\* a session aborted by the failure of the call of the second phase
C3_Witness ==
    /\ pc = "aborted"
    /\ hint_printed
    /\ Len(calls) = 3
    /\ calls[3].at = "call2"
    /\ calls[3].outcome.tag = "raised"
    /\ summary_file = NoFile

PhasePrompt(n) ==
    CASE n = 1 -> BroadPrompt [] n = 2 -> prompt_2
      [] n = 3 -> prompt_3 [] OTHER -> prompt_4

\* the turns of a message list that carry a phase instruction
InstructionTurns(messages) ==
    SelectSeq(messages, LAMBDA t :
        t.content \in {BroadPrompt, prompt_2, prompt_3, prompt_4})

\* C9 as stated: the call of phase n sends every phase instruction of
\* phases 1..n as system turns, in order, the last message being the
\* instruction of phase n.
C9_EveryInstructionSent ==
    \A k \in 1..Len(calls) :
        LET n == PhaseIndex(Phase(calls[k].at))
        IN  calls[k].at \in {"call1", "call2", "call3", "call4"} =>
              /\ InstructionTurns(calls[k].messages)
                    = [m \in 1..n |-> SystemMessage(PhasePrompt(m))]
              /\ calls[k].messages[Len(calls[k].messages)]
                    = SystemMessage(PhasePrompt(n))

\* the conversation as it stands when the call at a position is made
ConversationAt(at) ==
    LET first == <<SystemMessage(BrainstormAssistantText),
                   AssistantMessage(locals.questions),
                   UserMessage(locals.user_answer)>>
        second == first \o <<SystemMessage(prompt_2)>>
        third == second \o <<AssistantMessage(locals.followup_2),
                             UserMessage(locals.user_answer2),
                             SystemMessage(prompt_3)>>
        fourth == third \o <<AssistantMessage(locals.followup_3),
                             UserMessage(locals.user_answer_3),
                             SystemMessage(prompt_4)>>
    IN  CASE at = "call1b" -> first [] at = "call2" -> second
          [] at = "call3" -> third [] OTHER -> fourth

\* C9 amended: phases 2-4 append their instruction as a system turn and
\* every call after the first sends the whole conversation so far (the fixed
\* system message, the normalized responses and the answers so far, the
\* instructions of phases 2..n); the broad-questions instruction goes only to
\* the first call, as a user turn of a list of its own.
C9_ConversationSent ==
    /\ \A k \in 1..Len(calls) :
          /\ calls[k].at = "call1" <=> k = 1
          /\ k = 1 => calls[k].messages = InitialMessages
          /\ k > 1 =>
                /\ calls[k].messages = ConversationAt(calls[k].at)
                /\ IsPrefix(calls[k].messages, conversation)
                /\ InstructionTurns(calls[k].messages)
                      = [m \in 1..(PhaseIndex(Phase(calls[k].at)) - 1) |->
                             SystemMessage(PhasePrompt(m + 1))]
    /\ locals.questions # NoText =>
          locals.questions = Normalize(locals.questions_raw)
    /\ locals.followup_2 # NoText =>
          locals.followup_2 = Normalize(locals.followup_2_raw)
    /\ locals.followup_3 # NoText =>
          locals.followup_3 = Normalize(locals.followup_3_raw)

\* all five calls returned, the answers of the phases differing
C9_Witness ==
    /\ Len(calls) = 5
    /\ \A k \in 1..5 : calls[k].outcome.tag = "returned"
    /\ Len(calls[5].messages) = 10
    /\ locals.questions = <<"a">>
    /\ locals.followup_2 = <<"b">>

\* the answers input() returned, in order
AnswersRead ==
    LET ok == SelectSeq(stdin_reads, LAMBDA r : r.tag = "returned")
    IN  [k \in 1..Len(ok) |-> ok[k].val[1]]

TurnPattern ==
    <<"system", "assistant", "user", "system", "assistant", "user",
      "system", "assistant", "user", "system", "assistant">>

\* C10: once created the conversation only grows, one turn at a time and at
\* its end; in every phase the assistant turn precedes the user turn, the
\* user turn precedes the next instruction, and the Summary phase adds no
\* user turn.
C10_AppendOnly ==
    /\ [][conversation # <<>> =>
            \/ conversation' = conversation
            \/ /\ Len(conversation') = Len(conversation) + 1
               /\ SubSeq(conversation', 1, Len(conversation)) = conversation]_vars
    /\ [](IsPrefix(RolesOf(conversation), TurnPattern))
    /\ [](pc = "done" => RolesOf(conversation) = TurnPattern)
    /\ [](ContentsOf(conversation, "user") = AnswersRead)

\* a finished session: eleven turns, the last one the summary
C10_Witness ==
    /\ pc = "done"
    /\ Len(conversation) = 11
    /\ conversation[11] = AssistantMessage(locals.summary)
    /\ conversation[3] = UserMessage(<<"u">>)

----------------------------------------------------------------------------
(* Claims about the normalizer and the clients *)

\* C4: the normalizer is idempotent: normalizing a normalized text changes
\* nothing, whatever <think> and </think> markers the text holds.
C4_Idempotent == n_pc = "twice" => n_twice = n_once

\* C7: once the provider has returned a response, the text extraction of
\* either client returns a string and lets no exception through, and a
\* response without any text field gives the empty string.
C7_NoExceptionEscapes ==
    c_pc = "done" =>
        /\ c_out.tag = "returned"
        /\ (c_mode = "chat" /\ NoTextFields(c_response)) => c_out.val[1] = <<>>
        /\ (c_mode = "summarization"
              /\ c_response.text.tag \notin {"str"}) => c_out.val[1] = <<>>

----------------------------------------------------------------------------
(* Claims about the extraction run *)

\* C5: the counter counts the provider calls that succeeded and the run
\* sleeps 80 seconds each time the count reaches a multiple of 9, so k
\* successful calls give floor(k/9) pauses: after call 9, after call 18, ...
C5_PauseEveryNinthCall ==
    /\ api_calls_made <= returned_calls
    /\ Len(sleep_log) = returned_calls \div SleepEvery
    /\ \A j \in 1..Len(sleep_log) :
          sleep_log[j] = [after_call |-> SleepEvery * j, seconds |-> SleepSeconds]
    /\ e_pc = "done" => Len(results) = NumDocs

\* the step processed a document that failed: the reader raised, or the
\* provider call or the read of its response raised
FailedDocument(d) ==
    \/ d.doc.reader = "raises"
    \/ d.reply.tag = "raised"
    \/ d.reply.tag = "returned" /\ d.reply.val[1].text.tag = "raises"

\* the titles document i can get
TitlesOf(i) == {FilenameStem(i), <<"T">>, <<"K">>}

\* C6: a document that fails gets an abstract starting with the error prefix
\* and the run goes on: after k documents the collection holds k records,
\* record i being the one of document i, and a finished run holds one record
\* per PDF.
C6_FailureContained ==
    /\ [][idx' # idx =>
            /\ idx' = idx + 1
            /\ e_pc' = "loop"
            /\ Len(results') = idx'
            /\ SubSeq(results', 1, idx) = results
            /\ last_doc'.doc.path = idx'
            /\ results'[idx'].title = get_pdf_title(last_doc'.doc)
            /\ FailedDocument(last_doc') <=>
                  (Len(results'[idx'].abstract) = 2
                      /\ results'[idx'].abstract[1] = ErrorPrefix)]_vars
    /\ [](Len(results) = idx)
    /\ [](\A i \in 1..Len(results) : results[i].title \in TitlesOf(i))
    /\ [](e_pc = "done" => Len(results) = NumDocs)

\* a finished run in which an early document failed and the later ones
\* were processed
C6_Witness ==
    /\ e_pc = "done"
    /\ Len(results) = NumDocs
    /\ results[2].abstract = ErrorAbstract("ResourceExhausted")
    /\ results[NumDocs].abstract = <<"a">>
    /\ results[NumDocs].title = FilenameStem(NumDocs)

\* the first two pages of the document give no text: each is missing, None,
\* blank or fails to extract
NoExtractableText(doc) ==
    /\ doc.reader = "ok"
    /\ \A k \in 1..Len(doc.pages) :
          k <= PageLimit =>
              \/ doc.pages[k].tag # "str"
              \/ \A c \in 1..Len(doc.pages[k].val) :
                     doc.pages[k].val[c] \in Whitespace

\* C8: a document whose first two pages give no text gets the empty
\* abstract without a provider call, a count or a sleep; the provider is
\* called only for a document with text.
C8_EmptyTextNoCall ==
    [][idx' # idx =>
          /\ NoExtractableText(last_doc'.doc) =>
                /\ results'[idx'].abstract = <<>>
                /\ provider_calls' = provider_calls
                /\ returned_calls' = returned_calls
                /\ api_calls_made' = api_calls_made
                /\ sleep_log' = sleep_log
          /\ provider_calls' # provider_calls =>
                /\ provider_calls' = provider_calls + 1
                /\ ~NoExtractableText(last_doc'.doc)
                /\ last_doc'.doc.reader = "ok"
                /\ last_doc'.prompt # NoText]_vars

\* a document of two pages, one blank and one failing, processed right after
\* the ninth counted call
C8_Witness ==
    /\ idx = SleepEvery + 1
    /\ last_doc.doc.pages = <<Str(<<" ", "\n">>), Raises("PageError")>>
    /\ results[idx].abstract = <<>>
    /\ api_calls_made = SleepEvery
    /\ provider_calls = SleepEvery
    /\ Len(sleep_log) = 1

====
